---- MODULE Spec2Model ----
(***************************************************************************)
(* Chainlink adaptor pallet (ecosystem-modules/chainlink/chainlink-adaptor) *)
(* as a state machine: the two storage maps, the deposited events, the      *)
(* chainlink feed pallet's feeds, the time source, and one action per       *)
(* dispatchable, handler or data-provider call.                             *)
(***************************************************************************)
EXTENDS Integers, Sequences, FiniteSets, TLC

(* ------------------------------ bounds --------------------------------- *)
MaxValue == 2          \* feed answers are 0..MaxValue
MaxConvertible == 1    \* answers above it have no Price
MaxTime == 1           \* the time source stops here
MaxEvents == 3         \* events deposited in one run

(* Two currencies and two feeds; iteration over the storage map visits    *)
(* the keys in the order of CurrencyOrder.                                 *)
CurrencyOrder == <<"ACA", "DOT">>
CurrencyIds == {CurrencyOrder[i] : i \in 1..Len(CurrencyOrder)}
FeedIds == {7, 9}
FeedValues == 0..MaxValue
Moments == 0..MaxTime

(* Option<T>: None is the empty tuple, Some(x) the one-element tuple.       *)
None == <<>>
Some(x) == <<x>>
IsSome(o) == o # None
Unwrap(o) == o[1]

(* Default::default() of FeedValueOf<T> and of MomentOf<T>.                  *)
DefaultValue == 0
DefaultMoment == 0

(* Origins; RegistorOrigin::ensure_origin accepts only the registor.        *)
Origins == {"Registor", "Signed"}
ensure_origin(origin) == origin = "Registor"

(* T::Convert: a fixed-point scaling that fails above MaxConvertible.       *)
PriceScale == 10
Convert(value) == IF value > MaxConvertible THEN None ELSE Some(value * PriceScale)

VARIABLES
    FeedIdMapping,          \* StorageMap CurrencyId -> FeedId, OptionQuery
    LastUpdatedTimestamp,   \* StorageMap FeedId -> Moment, ValueQuery (None = no key)
    events,                 \* events deposited so far, oldest first
    Feeds,                  \* pallet_chainlink_feed: feed existence and latest round
    now,                    \* T::Time::now()
    last,                   \* the operation of the last step and its result
    answered                \* history: T::Time::now() at the latest on_answer of each feed

vars == <<FeedIdMapping, LastUpdatedTimestamp, events, Feeds, now, last, answered>>

(* What the last step was: the operation and, for a dispatchable, its      *)
(* DispatchResult.                                                          *)
Call(op, result) == [op |-> op, result |-> result]

MappingFeedId(feed_id, currency_id) ==
    [name |-> "MappingFeedId", feed_id |-> feed_id, currency_id |-> currency_id]
UnmappingFeedId(feed_id, currency_id) ==
    [name |-> "UnmappingFeedId", feed_id |-> feed_id, currency_id |-> currency_id]

deposit_event(log, event) == Append(log, event)

(* ------------------------- storage getters ------------------------------ *)
feed_id_mapping(currency_id) == FeedIdMapping[currency_id]

(* Variant: a missing key reads as the current time.                       *)
last_updated_timestamp_now(feed_id) ==
    IF IsSome(LastUpdatedTimestamp[feed_id])
    THEN Unwrap(LastUpdatedTimestamp[feed_id])
    ELSE now

last_updated_timestamp(feed_id) ==
    IF IsSome(LastUpdatedTimestamp[feed_id])
    THEN Unwrap(LastUpdatedTimestamp[feed_id])
    ELSE DefaultMoment

(* --------------------- chainlink feed pallet ---------------------------- *)
(* A feed is a record [has_round, answer]; a feed without a round carries   *)
(* the default answer.                                                      *)
NewFeed == [has_round |-> FALSE, answer |-> DefaultValue]
feed(feed_id) == Feeds[feed_id]
latest_data_answer(f) == f.answer

(* --------------------------- price resolver ----------------------------- *)
get_price_from_chainlink_feed(currency_id) ==
    IF ~IsSome(feed_id_mapping(currency_id)) THEN None
    ELSE IF ~IsSome(feed(Unwrap(feed_id_mapping(currency_id)))) THEN None
    ELSE Convert(latest_data_answer(Unwrap(feed(Unwrap(feed_id_mapping(currency_id))))))

get(key) == get_price_from_chainlink_feed(key)

(* Variant: the price is unwrapped with its default instead of mapped.     *)
get_no_op_default(key) ==
    Some([value |-> IF IsSome(get_price_from_chainlink_feed(key))
                    THEN Unwrap(get_price_from_chainlink_feed(key))
                    ELSE 0,
          timestamp |-> IF IsSome(feed_id_mapping(key))
                        THEN last_updated_timestamp(Unwrap(feed_id_mapping(key)))
                        ELSE DefaultMoment])

(* Variant: a feed without a stored timestamp yields no value.             *)
get_no_op_requires_timestamp(key) ==
    IF ~IsSome(get_price_from_chainlink_feed(key)) THEN None
    ELSE IF ~IsSome(LastUpdatedTimestamp[Unwrap(feed_id_mapping(key))]) THEN None
    ELSE Some([value |-> Unwrap(get_price_from_chainlink_feed(key)),
               timestamp |-> last_updated_timestamp(Unwrap(feed_id_mapping(key)))])

get_no_op(key) ==
    IF ~IsSome(get_price_from_chainlink_feed(key)) THEN None
    ELSE Some([value |-> Unwrap(get_price_from_chainlink_feed(key)),
               timestamp |-> IF IsSome(feed_id_mapping(key))
                             THEN last_updated_timestamp(Unwrap(feed_id_mapping(key)))
                             ELSE DefaultMoment])

(* FeedIdMapping::iter() visits every stored key once.                      *)
RECURSIVE get_all_values_from(_)
get_all_values_from(i) ==
    IF i > Len(CurrencyOrder) THEN <<>>
    ELSE IF IsSome(FeedIdMapping[CurrencyOrder[i]])
         THEN <<(<<CurrencyOrder[i], get_no_op(CurrencyOrder[i])>>)>> \o get_all_values_from(i + 1)
         ELSE get_all_values_from(i + 1)
get_all_values == get_all_values_from(1)

(* ----------------------------- initial state ---------------------------- *)
Init ==
    /\ FeedIdMapping = [c \in CurrencyIds |-> None]
    /\ LastUpdatedTimestamp = [f \in FeedIds |-> None]
    /\ events = <<>>
    /\ Feeds = [f \in FeedIds |-> None]
    /\ now = 0
    /\ last = Call("genesis", "-")
    /\ answered = [f \in FeedIds |-> None]

(* ----------------------------- dispatchables ---------------------------- *)
(* Variants of mapping_feed_id: the event is not deposited; the            *)
(* contains_key check is missing; the Feeds check is missing.               *)
mapping_feed_id_no_event(origin, feed_id, currency_id) ==
    IF ~ensure_origin(origin) THEN
        /\ last' = Call("mapping_feed_id", "BadOrigin")
        /\ UNCHANGED answered
        /\ UNCHANGED <<FeedIdMapping, LastUpdatedTimestamp, events, Feeds, now>>
    ELSE IF IsSome(FeedIdMapping[currency_id]) THEN
        /\ last' = Call("mapping_feed_id", "CurrencyIdAlreadyMapping")
        /\ UNCHANGED answered
        /\ UNCHANGED <<FeedIdMapping, LastUpdatedTimestamp, events, Feeds, now>>
    ELSE IF ~IsSome(Feeds[feed_id]) THEN
        /\ last' = Call("mapping_feed_id", "InvalidFeedId")
        /\ UNCHANGED answered
        /\ UNCHANGED <<FeedIdMapping, LastUpdatedTimestamp, events, Feeds, now>>
    ELSE
        /\ FeedIdMapping' = [FeedIdMapping EXCEPT ![currency_id] = Some(feed_id)]
        /\ last' = Call("mapping_feed_id", "Ok")
        /\ UNCHANGED answered
        /\ UNCHANGED <<LastUpdatedTimestamp, events, Feeds, now>>

mapping_feed_id_overwrite(origin, feed_id, currency_id) ==
    IF ~ensure_origin(origin) THEN
        /\ last' = Call("mapping_feed_id", "BadOrigin")
        /\ UNCHANGED answered
        /\ UNCHANGED <<FeedIdMapping, LastUpdatedTimestamp, events, Feeds, now>>
    ELSE IF ~IsSome(Feeds[feed_id]) THEN
        /\ last' = Call("mapping_feed_id", "InvalidFeedId")
        /\ UNCHANGED answered
        /\ UNCHANGED <<FeedIdMapping, LastUpdatedTimestamp, events, Feeds, now>>
    ELSE
        /\ Len(events) < MaxEvents
        /\ FeedIdMapping' = [FeedIdMapping EXCEPT ![currency_id] = Some(feed_id)]
        /\ events' = deposit_event(events, MappingFeedId(feed_id, currency_id))
        /\ last' = Call("mapping_feed_id", "Ok")
        /\ UNCHANGED answered
        /\ UNCHANGED <<LastUpdatedTimestamp, Feeds, now>>

mapping_feed_id_any_feed(origin, feed_id, currency_id) ==
    IF ~ensure_origin(origin) THEN
        /\ last' = Call("mapping_feed_id", "BadOrigin")
        /\ UNCHANGED answered
        /\ UNCHANGED <<FeedIdMapping, LastUpdatedTimestamp, events, Feeds, now>>
    ELSE IF IsSome(FeedIdMapping[currency_id]) THEN
        /\ last' = Call("mapping_feed_id", "CurrencyIdAlreadyMapping")
        /\ UNCHANGED answered
        /\ UNCHANGED <<FeedIdMapping, LastUpdatedTimestamp, events, Feeds, now>>
    ELSE
        /\ Len(events) < MaxEvents
        /\ FeedIdMapping' = [FeedIdMapping EXCEPT ![currency_id] = Some(feed_id)]
        /\ events' = deposit_event(events, MappingFeedId(feed_id, currency_id))
        /\ last' = Call("mapping_feed_id", "Ok")
        /\ UNCHANGED answered
        /\ UNCHANGED <<LastUpdatedTimestamp, Feeds, now>>

(* Variants of mapping_feed_id: a feed may be mapped to one currency only; *)
(* the Feeds check comes before the contains_key check.                     *)
mapping_feed_id_unique_feed(origin, feed_id, currency_id) ==
    IF ~ensure_origin(origin) THEN
        /\ last' = Call("mapping_feed_id", "BadOrigin")
        /\ UNCHANGED answered
        /\ UNCHANGED <<FeedIdMapping, LastUpdatedTimestamp, events, Feeds, now>>
    ELSE IF IsSome(FeedIdMapping[currency_id])
            \/ \E c \in CurrencyIds : FeedIdMapping[c] = Some(feed_id) THEN
        /\ last' = Call("mapping_feed_id", "CurrencyIdAlreadyMapping")
        /\ UNCHANGED answered
        /\ UNCHANGED <<FeedIdMapping, LastUpdatedTimestamp, events, Feeds, now>>
    ELSE IF ~IsSome(Feeds[feed_id]) THEN
        /\ last' = Call("mapping_feed_id", "InvalidFeedId")
        /\ UNCHANGED answered
        /\ UNCHANGED <<FeedIdMapping, LastUpdatedTimestamp, events, Feeds, now>>
    ELSE
        /\ Len(events) < MaxEvents
        /\ FeedIdMapping' = [FeedIdMapping EXCEPT ![currency_id] = Some(feed_id)]
        /\ events' = deposit_event(events, MappingFeedId(feed_id, currency_id))
        /\ last' = Call("mapping_feed_id", "Ok")
        /\ UNCHANGED answered
        /\ UNCHANGED <<LastUpdatedTimestamp, Feeds, now>>

mapping_feed_id_feed_first(origin, feed_id, currency_id) ==
    IF ~ensure_origin(origin) THEN
        /\ last' = Call("mapping_feed_id", "BadOrigin")
        /\ UNCHANGED answered
        /\ UNCHANGED <<FeedIdMapping, LastUpdatedTimestamp, events, Feeds, now>>
    ELSE IF ~IsSome(Feeds[feed_id]) THEN
        /\ last' = Call("mapping_feed_id", "InvalidFeedId")
        /\ UNCHANGED answered
        /\ UNCHANGED <<FeedIdMapping, LastUpdatedTimestamp, events, Feeds, now>>
    ELSE IF IsSome(FeedIdMapping[currency_id]) THEN
        /\ last' = Call("mapping_feed_id", "CurrencyIdAlreadyMapping")
        /\ UNCHANGED answered
        /\ UNCHANGED <<FeedIdMapping, LastUpdatedTimestamp, events, Feeds, now>>
    ELSE
        /\ Len(events) < MaxEvents
        /\ FeedIdMapping' = [FeedIdMapping EXCEPT ![currency_id] = Some(feed_id)]
        /\ events' = deposit_event(events, MappingFeedId(feed_id, currency_id))
        /\ last' = Call("mapping_feed_id", "Ok")
        /\ UNCHANGED answered
        /\ UNCHANGED <<LastUpdatedTimestamp, Feeds, now>>

mapping_feed_id(origin, feed_id, currency_id) ==
    IF ~ensure_origin(origin) THEN
        /\ last' = Call("mapping_feed_id", "BadOrigin")
        /\ UNCHANGED answered
        /\ UNCHANGED <<FeedIdMapping, LastUpdatedTimestamp, events, Feeds, now>>
    ELSE IF IsSome(FeedIdMapping[currency_id]) THEN
        /\ last' = Call("mapping_feed_id", "CurrencyIdAlreadyMapping")
        /\ UNCHANGED answered
        /\ UNCHANGED <<FeedIdMapping, LastUpdatedTimestamp, events, Feeds, now>>
    ELSE IF ~IsSome(Feeds[feed_id]) THEN
        /\ last' = Call("mapping_feed_id", "InvalidFeedId")
        /\ UNCHANGED answered
        /\ UNCHANGED <<FeedIdMapping, LastUpdatedTimestamp, events, Feeds, now>>
    ELSE
        /\ Len(events) < MaxEvents
        /\ FeedIdMapping' = [FeedIdMapping EXCEPT ![currency_id] = Some(feed_id)]
        /\ events' = deposit_event(events, MappingFeedId(feed_id, currency_id))
        /\ last' = Call("mapping_feed_id", "Ok")
        /\ UNCHANGED answered
        /\ UNCHANGED <<LastUpdatedTimestamp, Feeds, now>>

(* Variants of unmapping_feed_id: the origin is not checked; a missing     *)
(* entry is an error; the entry is read with get instead of take; the       *)
(* feed's timestamp is removed with the entry.                              *)
unmapping_feed_id_unchecked(origin, currency_id) ==
    IF IsSome(FeedIdMapping[currency_id]) THEN
        /\ Len(events) < MaxEvents
        /\ FeedIdMapping' = [FeedIdMapping EXCEPT ![currency_id] = None]
        /\ events' = deposit_event(events, UnmappingFeedId(Unwrap(FeedIdMapping[currency_id]), currency_id))
        /\ last' = Call("unmapping_feed_id", "Ok")
        /\ UNCHANGED answered
        /\ UNCHANGED <<LastUpdatedTimestamp, Feeds, now>>
    ELSE
        /\ last' = Call("unmapping_feed_id", "Ok")
        /\ UNCHANGED answered
        /\ UNCHANGED <<FeedIdMapping, LastUpdatedTimestamp, events, Feeds, now>>

unmapping_feed_id_strict(origin, currency_id) ==
    IF ~ensure_origin(origin) THEN
        /\ last' = Call("unmapping_feed_id", "BadOrigin")
        /\ UNCHANGED answered
        /\ UNCHANGED <<FeedIdMapping, LastUpdatedTimestamp, events, Feeds, now>>
    ELSE IF IsSome(FeedIdMapping[currency_id]) THEN
        /\ Len(events) < MaxEvents
        /\ FeedIdMapping' = [FeedIdMapping EXCEPT ![currency_id] = None]
        /\ events' = deposit_event(events, UnmappingFeedId(Unwrap(FeedIdMapping[currency_id]), currency_id))
        /\ last' = Call("unmapping_feed_id", "Ok")
        /\ UNCHANGED answered
        /\ UNCHANGED <<LastUpdatedTimestamp, Feeds, now>>
    ELSE
        /\ last' = Call("unmapping_feed_id", "InvalidFeedId")
        /\ UNCHANGED answered
        /\ UNCHANGED <<FeedIdMapping, LastUpdatedTimestamp, events, Feeds, now>>

unmapping_feed_id_get(origin, currency_id) ==
    IF ~ensure_origin(origin) THEN
        /\ last' = Call("unmapping_feed_id", "BadOrigin")
        /\ UNCHANGED answered
        /\ UNCHANGED <<FeedIdMapping, LastUpdatedTimestamp, events, Feeds, now>>
    ELSE IF IsSome(FeedIdMapping[currency_id]) THEN
        /\ Len(events) < MaxEvents
        /\ events' = deposit_event(events, UnmappingFeedId(Unwrap(FeedIdMapping[currency_id]), currency_id))
        /\ last' = Call("unmapping_feed_id", "Ok")
        /\ UNCHANGED answered
        /\ UNCHANGED <<FeedIdMapping, LastUpdatedTimestamp, Feeds, now>>
    ELSE
        /\ last' = Call("unmapping_feed_id", "Ok")
        /\ UNCHANGED answered
        /\ UNCHANGED <<FeedIdMapping, LastUpdatedTimestamp, events, Feeds, now>>

unmapping_feed_id_clears(origin, currency_id) ==
    IF ~ensure_origin(origin) THEN
        /\ last' = Call("unmapping_feed_id", "BadOrigin")
        /\ UNCHANGED answered
        /\ UNCHANGED <<FeedIdMapping, LastUpdatedTimestamp, events, Feeds, now>>
    ELSE IF IsSome(FeedIdMapping[currency_id]) THEN
        /\ Len(events) < MaxEvents
        /\ FeedIdMapping' = [FeedIdMapping EXCEPT ![currency_id] = None]
        /\ LastUpdatedTimestamp' =
              [LastUpdatedTimestamp EXCEPT ![Unwrap(FeedIdMapping[currency_id])] = None]
        /\ events' = deposit_event(events, UnmappingFeedId(Unwrap(FeedIdMapping[currency_id]), currency_id))
        /\ last' = Call("unmapping_feed_id", "Ok")
        /\ UNCHANGED answered
        /\ UNCHANGED <<Feeds, now>>
    ELSE
        /\ last' = Call("unmapping_feed_id", "Ok")
        /\ UNCHANGED answered
        /\ UNCHANGED <<FeedIdMapping, LastUpdatedTimestamp, events, Feeds, now>>

(* Variant: the timestamp of the unmapped feed is reset to the default.   *)
unmapping_feed_id_resets(origin, currency_id) ==
    IF ~ensure_origin(origin) THEN
        /\ last' = Call("unmapping_feed_id", "BadOrigin")
        /\ UNCHANGED answered
        /\ UNCHANGED <<FeedIdMapping, LastUpdatedTimestamp, events, Feeds, now>>
    ELSE IF IsSome(FeedIdMapping[currency_id]) THEN
        /\ Len(events) < MaxEvents
        /\ FeedIdMapping' = [FeedIdMapping EXCEPT ![currency_id] = None]
        /\ LastUpdatedTimestamp' =
              [LastUpdatedTimestamp EXCEPT ![Unwrap(FeedIdMapping[currency_id])] = Some(DefaultMoment)]
        /\ events' = deposit_event(events, UnmappingFeedId(Unwrap(FeedIdMapping[currency_id]), currency_id))
        /\ last' = Call("unmapping_feed_id", "Ok")
        /\ UNCHANGED answered
        /\ UNCHANGED <<Feeds, now>>
    ELSE
        /\ last' = Call("unmapping_feed_id", "Ok")
        /\ UNCHANGED answered
        /\ UNCHANGED <<FeedIdMapping, LastUpdatedTimestamp, events, Feeds, now>>

unmapping_feed_id(origin, currency_id) ==
    IF ~ensure_origin(origin) THEN
        /\ last' = Call("unmapping_feed_id", "BadOrigin")
        /\ UNCHANGED answered
        /\ UNCHANGED <<FeedIdMapping, LastUpdatedTimestamp, events, Feeds, now>>
    ELSE IF IsSome(FeedIdMapping[currency_id]) THEN
        /\ Len(events) < MaxEvents
        /\ FeedIdMapping' = [FeedIdMapping EXCEPT ![currency_id] = None]
        /\ events' = deposit_event(events, UnmappingFeedId(Unwrap(FeedIdMapping[currency_id]), currency_id))
        /\ last' = Call("unmapping_feed_id", "Ok")
        /\ UNCHANGED answered
        /\ UNCHANGED <<LastUpdatedTimestamp, Feeds, now>>
    ELSE
        /\ last' = Call("unmapping_feed_id", "Ok")
        /\ UNCHANGED answered
        /\ UNCHANGED <<FeedIdMapping, LastUpdatedTimestamp, events, Feeds, now>>

(* ----------------------------- answer handler --------------------------- *)
(* Variants of on_answer: the default Moment is stored instead of the      *)
(* current time; a stored timestamp is not overwritten; the timestamp is     *)
(* recorded only for a feed some currency is mapped to; every feed's         *)
(* timestamp is written.                                                     *)
on_answer_default(feed_id) ==
    /\ IsSome(Feeds[feed_id])
    /\ LastUpdatedTimestamp' = [LastUpdatedTimestamp EXCEPT ![feed_id] = Some(DefaultMoment)]
    /\ last' = Call("on_answer", "-")
    /\ answered' = [answered EXCEPT ![feed_id] = Some(now)]
    /\ UNCHANGED <<FeedIdMapping, events, Feeds, now>>

on_answer_keep_first(feed_id) ==
    /\ IsSome(Feeds[feed_id])
    /\ LastUpdatedTimestamp' =
          IF IsSome(LastUpdatedTimestamp[feed_id]) THEN LastUpdatedTimestamp
          ELSE [LastUpdatedTimestamp EXCEPT ![feed_id] = Some(now)]
    /\ last' = Call("on_answer", "-")
    /\ answered' = [answered EXCEPT ![feed_id] = Some(now)]
    /\ UNCHANGED <<FeedIdMapping, events, Feeds, now>>

on_answer_mapped_only(feed_id) ==
    /\ IsSome(Feeds[feed_id])
    /\ LastUpdatedTimestamp' =
          IF \E c \in CurrencyIds : FeedIdMapping[c] = Some(feed_id)
          THEN [LastUpdatedTimestamp EXCEPT ![feed_id] = Some(now)]
          ELSE LastUpdatedTimestamp
    /\ last' = Call("on_answer", "-")
    /\ answered' = [answered EXCEPT ![feed_id] = Some(now)]
    /\ UNCHANGED <<FeedIdMapping, events, Feeds, now>>

on_answer(feed_id) ==
    /\ IsSome(Feeds[feed_id])
    /\ LastUpdatedTimestamp' = [LastUpdatedTimestamp EXCEPT ![feed_id] = Some(now)]
    /\ last' = Call("on_answer", "-")
    /\ answered' = [answered EXCEPT ![feed_id] = Some(now)]
    /\ UNCHANGED <<FeedIdMapping, events, Feeds, now>>

(* ----------------------------- data provider ---------------------------- *)
(* The storage getter, called as a read of its own.                         *)
feed_id_mapping_call(key) ==
    /\ last' = Call("feed_id_mapping", "-")
    /\ UNCHANGED answered
    /\ UNCHANGED <<FeedIdMapping, LastUpdatedTimestamp, events, Feeds, now>>

get_call(key) ==
    /\ last' = Call("get", "-")
    /\ UNCHANGED answered
    /\ UNCHANGED <<FeedIdMapping, LastUpdatedTimestamp, events, Feeds, now>>

(* Variant: the read takes the entry out of the map.                       *)
get_no_op_call_take(key) ==
    /\ last' = Call("get_no_op", "-")
    /\ FeedIdMapping' = [FeedIdMapping EXCEPT ![key] = None]
    /\ UNCHANGED answered
    /\ UNCHANGED <<LastUpdatedTimestamp, events, Feeds, now>>

get_no_op_call(key) ==
    /\ last' = Call("get_no_op", "-")
    /\ UNCHANGED answered
    /\ UNCHANGED <<FeedIdMapping, LastUpdatedTimestamp, events, Feeds, now>>

get_all_values_call ==
    /\ last' = Call("get_all_values", "-")
    /\ UNCHANGED answered
    /\ UNCHANGED <<FeedIdMapping, LastUpdatedTimestamp, events, Feeds, now>>

(* ------------------------------ environment ----------------------------- *)
(* The feed pallet creates a feed, and stores a round answer for a feed.    *)
create_feed(feed_id) ==
    /\ ~IsSome(Feeds[feed_id])
    /\ Feeds' = [Feeds EXCEPT ![feed_id] = Some(NewFeed)]
    /\ last' = Call("create_feed", "-")
    /\ UNCHANGED answered
    /\ UNCHANGED <<FeedIdMapping, LastUpdatedTimestamp, events, now>>

submit(feed_id, value) ==
    /\ IsSome(Feeds[feed_id])
    /\ Feeds' = [Feeds EXCEPT ![feed_id] = Some([has_round |-> TRUE, answer |-> value])]
    /\ last' = Call("submit", "-")
    /\ UNCHANGED answered
    /\ UNCHANGED <<FeedIdMapping, LastUpdatedTimestamp, events, now>>

(* The time source moves forward.                                           *)
tick ==
    /\ now < MaxTime
    /\ now' = now + 1
    /\ last' = Call("tick", "-")
    /\ UNCHANGED answered
    /\ UNCHANGED <<FeedIdMapping, LastUpdatedTimestamp, events, Feeds>>

Next ==
    \/ \E origin \in Origins, feed_id \in FeedIds, currency_id \in CurrencyIds :
          mapping_feed_id(origin, feed_id, currency_id)
    \/ \E origin \in Origins, currency_id \in CurrencyIds :
          unmapping_feed_id(origin, currency_id)
    \/ \E feed_id \in FeedIds : on_answer(feed_id)
    \/ \E key \in CurrencyIds : feed_id_mapping_call(key)
    \/ \E key \in CurrencyIds : get_call(key)
    \/ \E key \in CurrencyIds : get_no_op_call(key)
    \/ get_all_values_call
    \/ \E feed_id \in FeedIds : create_feed(feed_id)
    \/ \E feed_id \in FeedIds, value \in FeedValues : submit(feed_id, value)
    \/ tick

Spec == Init /\ [][Next]_vars

(* ------------------------------------------------------------------------ *)
(* Properties                                                               *)
(* ------------------------------------------------------------------------ *)
Storage == <<FeedIdMapping, LastUpdatedTimestamp, events>>

(* C1: an authorized mapping_feed_id of a feed that exists to a currency   *)
(* that has no entry returns Ok, stores exactly that entry (every other     *)
(* currency keeps its entry) and deposits exactly one                       *)
(* MappingFeedId(feed_id, currency_id) event.                               *)
C1_MapInsertsAndEmits ==
    [][last'.op = "mapping_feed_id" =>
       \A origin \in Origins, feed_id \in FeedIds, currency_id \in CurrencyIds :
          ( /\ ensure_origin(origin)
            /\ ~IsSome(FeedIdMapping[currency_id])
            /\ IsSome(Feeds[feed_id])
            /\ mapping_feed_id(origin, feed_id, currency_id) )
          => /\ last'.result = "Ok"
             /\ FeedIdMapping'[currency_id] = Some(feed_id)
             /\ \A other \in CurrencyIds \ {currency_id} :
                    FeedIdMapping'[other] = FeedIdMapping[other]
             /\ events' = Append(events, MappingFeedId(feed_id, currency_id))
             /\ UNCHANGED LastUpdatedTimestamp]_vars

C1_Witness ==
    /\ last = Call("mapping_feed_id", "Ok")
    /\ FeedIdMapping["DOT"] = Some(9)
    /\ FeedIdMapping["ACA"] = Some(7)
    /\ events = <<MappingFeedId(7, "ACA"), MappingFeedId(9, "DOT")>>

(* C2: an authorized mapping_feed_id for a currency that already has an    *)
(* entry returns CurrencyIdAlreadyMapping, whatever the feed id, and leaves *)
(* the mapping, the timestamps and the events as they were.                 *)
C2_MapNeverOverwrites ==
    [][last'.op = "mapping_feed_id" =>
       \A origin \in Origins, feed_id \in FeedIds, currency_id \in CurrencyIds :
          ( /\ ensure_origin(origin)
            /\ IsSome(FeedIdMapping[currency_id])
            /\ mapping_feed_id(origin, feed_id, currency_id) )
          => /\ last'.result = "CurrencyIdAlreadyMapping"
             /\ UNCHANGED Storage]_vars

C2_Witness ==
    /\ last = Call("mapping_feed_id", "CurrencyIdAlreadyMapping")
    /\ FeedIdMapping = [c \in CurrencyIds |-> IF c = "ACA" THEN Some(7) ELSE None]
    /\ events = <<MappingFeedId(7, "ACA")>>
    /\ IsSome(Feeds[9])

(* C3 as stated: an authorized mapping_feed_id with a feed id that does    *)
(* not exist returns InvalidFeedId and leaves the mapping unchanged,        *)
(* whether or not the currency has an entry.                                *)
C3_UnknownFeedAlwaysInvalidFeedId ==
    [][last'.op = "mapping_feed_id" =>
       \A origin \in Origins, feed_id \in FeedIds, currency_id \in CurrencyIds :
          ( /\ ensure_origin(origin)
            /\ ~IsSome(Feeds[feed_id])
            /\ mapping_feed_id(origin, feed_id, currency_id) )
          => /\ last'.result = "InvalidFeedId"
             /\ UNCHANGED FeedIdMapping]_vars

(* C3 amended: an authorized mapping_feed_id with a feed id that does not  *)
(* exist fails and leaves the mapping unchanged for every currency; the     *)
(* error is InvalidFeedId when the currency has no entry and                *)
(* CurrencyIdAlreadyMapping when it has one.                                *)
C3_UnknownFeedFails ==
    [][last'.op = "mapping_feed_id" =>
       \A origin \in Origins, feed_id \in FeedIds, currency_id \in CurrencyIds :
          ( /\ ensure_origin(origin)
            /\ ~IsSome(Feeds[feed_id])
            /\ mapping_feed_id(origin, feed_id, currency_id) )
          => /\ last'.result = IF IsSome(FeedIdMapping[currency_id])
                               THEN "CurrencyIdAlreadyMapping"
                               ELSE "InvalidFeedId"
             /\ UNCHANGED FeedIdMapping]_vars

C3_Witness ==
    /\ last = Call("mapping_feed_id", "InvalidFeedId")
    /\ FeedIdMapping["ACA"] = Some(7)
    /\ ~IsSome(FeedIdMapping["DOT"])
    /\ ~IsSome(Feeds[9])

(* C4: mapping_feed_id and unmapping_feed_id called with an origin that    *)
(* fails ensure_origin return BadOrigin for every argument and change       *)
(* neither the mapping nor the timestamps, and deposit no event.            *)
C4_BadOriginChangesNothing ==
    [][/\ last'.op = "mapping_feed_id" =>
          \A origin \in Origins, feed_id \in FeedIds, currency_id \in CurrencyIds :
             (~ensure_origin(origin) /\ mapping_feed_id(origin, feed_id, currency_id))
             => (last'.result = "BadOrigin" /\ UNCHANGED Storage)
       /\ last'.op = "unmapping_feed_id" =>
          \A origin \in Origins, currency_id \in CurrencyIds :
             (~ensure_origin(origin) /\ unmapping_feed_id(origin, currency_id))
             => (last'.result = "BadOrigin" /\ UNCHANGED Storage)]_vars

C4_Witness ==
    /\ last = Call("unmapping_feed_id", "BadOrigin")
    /\ FeedIdMapping["ACA"] = Some(7)
    /\ FeedIdMapping["DOT"] = Some(7)
    /\ Len(events) < MaxEvents

(* C5: an authorized unmapping_feed_id of a currency without an entry      *)
(* returns Ok, deposits no event and changes nothing; and after any         *)
(* authorized unmapping_feed_id the currency has no entry, so a second      *)
(* call changes nothing more.                                               *)
C5_UnmapAbsentIsNoOp ==
    [][last'.op = "unmapping_feed_id" =>
       \A origin \in Origins, currency_id \in CurrencyIds :
          (ensure_origin(origin) /\ unmapping_feed_id(origin, currency_id))
          => /\ last'.result = "Ok"
             /\ ~IsSome(FeedIdMapping'[currency_id])
             /\ ~IsSome(FeedIdMapping[currency_id])
                   => UNCHANGED <<FeedIdMapping, LastUpdatedTimestamp, events, Feeds, now>>]_vars

C5_Witness ==
    /\ last = Call("unmapping_feed_id", "Ok")
    /\ events = <<MappingFeedId(7, "ACA")>>
    /\ FeedIdMapping["ACA"] = Some(7)
    /\ IsSome(LastUpdatedTimestamp[7])

(* C6: an authorized unmapping_feed_id of a currency mapped to a feed      *)
(* removes that entry and no other, and deposits exactly one                *)
(* UnmappingFeedId event carrying the feed id that was stored.              *)
C6_UnmapRemovesAndEmits ==
    [][last'.op = "unmapping_feed_id" =>
       \A origin \in Origins, currency_id \in CurrencyIds, feed_id \in FeedIds :
          ( /\ ensure_origin(origin)
            /\ FeedIdMapping[currency_id] = Some(feed_id)
            /\ unmapping_feed_id(origin, currency_id) )
          => /\ FeedIdMapping' = [FeedIdMapping EXCEPT ![currency_id] = None]
             /\ events' = Append(events, UnmappingFeedId(feed_id, currency_id))]_vars

C6_Witness ==
    /\ last = Call("unmapping_feed_id", "Ok")
    /\ events = <<MappingFeedId(9, "ACA"), MappingFeedId(7, "DOT"), UnmappingFeedId(9, "ACA")>>
    /\ FeedIdMapping["ACA"] = None
    /\ FeedIdMapping["DOT"] = Some(7)

(* C7: mapping_feed_id and unmapping_feed_id never create, change or       *)
(* delete a LastUpdatedTimestamp entry: after a currency is mapped and      *)
(* unmapped its feed still has the timestamp recorded before.               *)
C7_DispatchablesKeepTimestamps ==
    [][( /\ last'.op \in {"mapping_feed_id", "unmapping_feed_id"}
         /\ \/ \E origin \in Origins, feed_id \in FeedIds, currency_id \in CurrencyIds :
                 mapping_feed_id(origin, feed_id, currency_id)
            \/ \E origin \in Origins, currency_id \in CurrencyIds :
                 unmapping_feed_id(origin, currency_id) )
       => /\ UNCHANGED LastUpdatedTimestamp
          /\ \A feed_id \in FeedIds :
                last_updated_timestamp(feed_id)' = last_updated_timestamp(feed_id)]_vars

C7_Witness ==
    /\ last = Call("unmapping_feed_id", "Ok")
    /\ events = <<MappingFeedId(7, "ACA"), UnmappingFeedId(7, "ACA")>>
    /\ FeedIdMapping["ACA"] = None
    /\ LastUpdatedTimestamp[7] = Some(1)
    /\ last_updated_timestamp(7) = 1

(* C8: get returns None for every currency mapped to a feed that exists    *)
(* but has no round yet.                                                    *)
C8_NoRoundNoPrice ==
    \A currency_id \in CurrencyIds :
        ( /\ IsSome(FeedIdMapping[currency_id])
          /\ IsSome(Feeds[Unwrap(FeedIdMapping[currency_id])])
          /\ ~Unwrap(Feeds[Unwrap(FeedIdMapping[currency_id])]).has_round )
        => get(currency_id) = None

(* C9: in every state, get and get_no_op return None for every currency    *)
(* without an entry, whatever the feeds and the timestamps hold.            *)
C9_UnmappedHasNoPrice ==
    \A currency_id \in CurrencyIds :
        ~IsSome(FeedIdMapping[currency_id])
        => (get(currency_id) = None /\ get_no_op(currency_id) = None)

C9_Witness ==
    /\ events = <<MappingFeedId(7, "ACA"), UnmappingFeedId(7, "ACA")>>
    /\ ~IsSome(FeedIdMapping["ACA"])
    /\ Feeds[7] = Some([has_round |-> TRUE, answer |-> 1])
    /\ LastUpdatedTimestamp[7] = Some(1)
    /\ last = Call("get_no_op", "-")

(* C10: in every state and for every currency, get_no_op is Some exactly   *)
(* when get is Some; then its value is get's price and its timestamp is     *)
(* the stored LastUpdatedTimestamp of the currency's feed, or the default   *)
(* Moment when nothing is stored for that feed.                             *)
C10_TimestampedValueMatchesGet ==
    \A currency_id \in CurrencyIds :
        /\ IsSome(get_no_op(currency_id)) <=> IsSome(get(currency_id))
        /\ IsSome(get_no_op(currency_id)) =>
              /\ Unwrap(get_no_op(currency_id)).value = Unwrap(get(currency_id))
              /\ Unwrap(get_no_op(currency_id)).timestamp =
                    IF IsSome(LastUpdatedTimestamp[Unwrap(FeedIdMapping[currency_id])])
                    THEN Unwrap(LastUpdatedTimestamp[Unwrap(FeedIdMapping[currency_id])])
                    ELSE DefaultMoment

C10_Witness ==
    /\ FeedIdMapping["ACA"] = Some(7)
    /\ Feeds[7] = Some([has_round |-> TRUE, answer |-> 1])
    /\ ~IsSome(LastUpdatedTimestamp[7])
    /\ now = 1
    /\ get_no_op("ACA") = Some([value |-> 10, timestamp |-> 0])
    /\ last = Call("get_no_op", "-")

(* C11: get_all_values returns exactly one entry per stored mapping (its   *)
(* currencies are the currencies that have an entry, none twice), each      *)
(* paired with get_no_op of that currency, and a currency whose feed has    *)
(* no round or whose answer does not convert is listed with None.           *)
MappedCurrencies == {c \in CurrencyIds : IsSome(FeedIdMapping[c])}

C11_GetAllListsEveryMapping ==
    /\ {get_all_values[i][1] : i \in 1..Len(get_all_values)} = MappedCurrencies
    /\ Len(get_all_values) = Cardinality(MappedCurrencies)
    /\ \A i \in 1..Len(get_all_values) :
          /\ get_all_values[i][2] = get_no_op(get_all_values[i][1])
          /\ ( \/ ~Unwrap(Feeds[Unwrap(FeedIdMapping[get_all_values[i][1]])]).has_round
               \/ ~IsSome(Convert(Unwrap(Feeds[Unwrap(FeedIdMapping[get_all_values[i][1]])]).answer)) )
             => get_all_values[i][2] = None

(* C12: on_answer stores the current time of the time source for its feed, *)
(* overwriting what was stored; and as the time source never goes back,     *)
(* last_updated_timestamp of every feed never decreases in any step.        *)
C12_OnAnswerRecordsNow ==
    [][/\ last'.op = "on_answer" =>
          \A feed_id \in FeedIds :
             on_answer(feed_id)
             => /\ LastUpdatedTimestamp'[feed_id] = Some(now)
                /\ last_updated_timestamp(feed_id)' = now
       /\ now' >= now =>
          \A feed_id \in FeedIds :
             last_updated_timestamp(feed_id)' >= last_updated_timestamp(feed_id)]_vars

C12_Witness ==
    /\ last = Call("on_answer", "-")
    /\ now = 1
    /\ LastUpdatedTimestamp[7] = Some(1)
    /\ LastUpdatedTimestamp[9] = Some(0)
    /\ answered = LastUpdatedTimestamp

(* C13: when a currency is mapped to a feed whose round answer converts to *)
(* a price and the latest on_answer of that feed fired at time T, get       *)
(* returns that price and get_no_op returns that price with timestamp T.    *)
C13_EndToEnd ==
    \A currency_id \in CurrencyIds, feed_id \in FeedIds :
        ( /\ FeedIdMapping[currency_id] = Some(feed_id)
          /\ IsSome(Feeds[feed_id])
          /\ Unwrap(Feeds[feed_id]).has_round
          /\ IsSome(Convert(Unwrap(Feeds[feed_id]).answer))
          /\ IsSome(answered[feed_id]) )
        => /\ get(currency_id) = Convert(Unwrap(Feeds[feed_id]).answer)
           /\ get_no_op(currency_id) =
                 Some([value |-> Unwrap(Convert(Unwrap(Feeds[feed_id]).answer)),
                       timestamp |-> Unwrap(answered[feed_id])])

C13_Witness ==
    /\ FeedIdMapping["ACA"] = Some(7)
    /\ Feeds[7] = Some([has_round |-> TRUE, answer |-> 1])
    /\ answered[7] = Some(1)
    /\ get("ACA") = Some(10)
    /\ get_no_op("ACA") = Some([value |-> 10, timestamp |-> 1])
    /\ last = Call("get_no_op", "-")

(* C14: the reads feed_id_mapping, get, get_no_op and get_all_values       *)
(* change neither the mapping, the timestamps, the events, the feeds nor    *)
(* the time.                                                                *)
C14_ReadsChangeNothing ==
    [][( /\ last'.op \in {"feed_id_mapping", "get", "get_no_op", "get_all_values"}
         /\ \/ \E key \in CurrencyIds : feed_id_mapping_call(key)
            \/ \E key \in CurrencyIds : get_call(key)
            \/ \E key \in CurrencyIds : get_no_op_call(key)
            \/ get_all_values_call )
       => UNCHANGED <<FeedIdMapping, LastUpdatedTimestamp, events, Feeds, now>>]_vars

C14_Witness ==
    /\ last = Call("get_all_values", "-")
    /\ FeedIdMapping["ACA"] = Some(7)
    /\ FeedIdMapping["DOT"] = Some(9)
    /\ LastUpdatedTimestamp[7] = Some(1)
    /\ events = <<MappingFeedId(7, "ACA"), MappingFeedId(9, "DOT")>>
    /\ Len(get_all_values) = Cardinality(CurrencyIds)

(* C15: for a feed with a round answer that converts, whatever the order   *)
(* of mapping_feed_id, on_answer and the reads: get_no_op of a currency is  *)
(* None while the currency has no entry, and once it is mapped to the feed  *)
(* it is Some of the price with the time of the feed's latest on_answer,    *)
(* or with the default Moment while no on_answer has fired; it is never     *)
(* None for a mapped currency.                                              *)
C15_RaceSeesZeroOrAnsweredTime ==
    \A currency_id \in CurrencyIds, feed_id \in FeedIds :
        ( /\ IsSome(Feeds[feed_id])
          /\ Unwrap(Feeds[feed_id]).has_round
          /\ IsSome(Convert(Unwrap(Feeds[feed_id]).answer)) )
        => /\ ~IsSome(FeedIdMapping[currency_id]) => get_no_op(currency_id) = None
           /\ FeedIdMapping[currency_id] = Some(feed_id) =>
                 /\ IsSome(get_no_op(currency_id))
                 /\ ~IsSome(answered[feed_id]) =>
                       Unwrap(get_no_op(currency_id)).timestamp = DefaultMoment
                 /\ IsSome(answered[feed_id]) =>
                       Unwrap(get_no_op(currency_id)).timestamp = Unwrap(answered[feed_id])

C15_Witness ==
    /\ FeedIdMapping["DOT"] = Some(9)
    /\ Feeds[9] = Some([has_round |-> TRUE, answer |-> 1])
    /\ answered[9] = None
    /\ answered[7] = Some(1)
    /\ now = 1
    /\ get_no_op("DOT") = Some([value |-> 10, timestamp |-> DefaultMoment])

(* C16: on_answer changes only the timestamp of its own feed: the mapping, *)
(* the events and the timestamp of every other feed stay as they were; and  *)
(* it records the time also for a feed no currency is mapped to.            *)
C16_OnAnswerTouchesOneTimestamp ==
    [][last'.op = "on_answer" =>
       \A feed_id \in FeedIds :
          on_answer(feed_id)
          => /\ UNCHANGED <<FeedIdMapping, events, Feeds, now>>
             /\ \A other \in FeedIds \ {feed_id} :
                   LastUpdatedTimestamp'[other] = LastUpdatedTimestamp[other]
             /\ (\A c \in CurrencyIds : FeedIdMapping[c] # Some(feed_id))
                   => LastUpdatedTimestamp'[feed_id] = Some(now)]_vars

C16_Witness ==
    /\ last = Call("on_answer", "-")
    /\ FeedIdMapping = [c \in CurrencyIds |-> None]
    /\ events = <<>>
    /\ LastUpdatedTimestamp[9] = Some(1)
    /\ LastUpdatedTimestamp[7] = None

(* C17: a timestamp recorded for a feed survives unmapping_feed_id and is  *)
(* seen again after a later mapping_feed_id of that feed: whenever the      *)
(* events show a currency unmapped from a feed and afterwards a currency    *)
(* (the same or another) mapped to that feed and still mapped, and an       *)
(* on_answer of the feed has fired, get_no_op of that currency, when it     *)
(* has a price, carries the time of the feed's latest on_answer and not     *)
(* the default.                                                             *)
C17_TimestampSurvivesRemap ==
    \A i \in 1..Len(events), j \in 1..Len(events) :
        ( /\ i < j
          /\ events[i].name = "UnmappingFeedId"
          /\ events[j].name = "MappingFeedId"
          /\ events[j].feed_id = events[i].feed_id
          /\ FeedIdMapping[events[j].currency_id] = Some(events[j].feed_id)
          /\ \A k \in (j + 1)..Len(events) : events[k].currency_id # events[j].currency_id
          /\ IsSome(answered[events[j].feed_id])
          /\ IsSome(get_no_op(events[j].currency_id)) )
        => Unwrap(get_no_op(events[j].currency_id)).timestamp
              = Unwrap(answered[events[j].feed_id])

C17_Witness ==
    /\ events = <<MappingFeedId(7, "ACA"), UnmappingFeedId(7, "ACA"), MappingFeedId(7, "DOT")>>
    /\ last = Call("mapping_feed_id", "Ok")
    /\ answered[7] = Some(1)
    /\ get_no_op("DOT") = Some([value |-> 10, timestamp |-> 1])
    /\ get_no_op("ACA") = None

(* C18: mapping_feed_id checks only the currency: an authorized call for   *)
(* an unmapped currency and an existing feed returns Ok also when the feed  *)
(* is already mapped to another currency, whose entry stays; and in every   *)
(* state two currencies mapped to the same feed have the same get_no_op,    *)
(* whose timestamp, once on_answer has run for the feed, is the time of     *)
(* that one on_answer for both.                                             *)
C18_FeedSharedByCurrencies ==
    /\ [](\A i \in 1..Len(CurrencyOrder) : \A j \in (i + 1)..Len(CurrencyOrder) :
             LET a == CurrencyOrder[i]
                 b == CurrencyOrder[j]
             IN  (FeedIdMapping[a] = FeedIdMapping[b] /\ IsSome(FeedIdMapping[a]))
                 => /\ get_no_op(a) = get_no_op(b)
                    /\ ( /\ IsSome(get_no_op(a))
                         /\ IsSome(answered[Unwrap(FeedIdMapping[a])]) )
                       => /\ Unwrap(get_no_op(a)).timestamp
                               = Unwrap(answered[Unwrap(FeedIdMapping[a])])
                          /\ Unwrap(get_no_op(b)).timestamp
                               = Unwrap(answered[Unwrap(FeedIdMapping[a])]))
    /\ [][last'.op = "mapping_feed_id" =>
          \A origin \in Origins, feed_id \in FeedIds, currency_id \in CurrencyIds :
             ( /\ ensure_origin(origin)
               /\ ~IsSome(FeedIdMapping[currency_id])
               /\ IsSome(Feeds[feed_id])
               /\ \E other \in CurrencyIds \ {currency_id} :
                     FeedIdMapping[other] = Some(feed_id)
               /\ mapping_feed_id(origin, feed_id, currency_id) )
             => /\ last'.result = "Ok"
                /\ \A c \in CurrencyIds :
                      FeedIdMapping[c] = Some(feed_id) \/ c = currency_id
                      => FeedIdMapping'[c] = Some(feed_id)]_vars

C18_Witness ==
    /\ last = Call("on_answer", "-")
    /\ events = <<MappingFeedId(7, "ACA"), MappingFeedId(7, "DOT")>>
    /\ FeedIdMapping["ACA"] = Some(7)
    /\ FeedIdMapping["DOT"] = Some(7)
    /\ now = 1
    /\ get_no_op("ACA") = Some([value |-> 10, timestamp |-> 1])
    /\ get_no_op("DOT") = Some([value |-> 10, timestamp |-> 1])

(* C19: the event log agrees with the registry in every reachable state:   *)
(* for each currency id its events alternate MappingFeedId,                *)
(* UnmappingFeedId, ... starting with MappingFeedId, each UnmappingFeedId   *)
(* carries the feed id of the MappingFeedId before it, and the currency is  *)
(* mapped to F exactly when its last event is MappingFeedId(F, currency).   *)
C19_EventsAgreeWithRegistry ==
    \A currency_id \in CurrencyIds :
        LET es == SelectSeq(events, LAMBDA e : e.currency_id = currency_id)
        IN  /\ \A i \in 1..Len(es) :
                  es[i].name = IF i % 2 = 1 THEN "MappingFeedId" ELSE "UnmappingFeedId"
            /\ \A i \in 2..Len(es) :
                  i % 2 = 0 => es[i].feed_id = es[i - 1].feed_id
            /\ \A feed_id \in FeedIds :
                  FeedIdMapping[currency_id] = Some(feed_id)
                  <=> (Len(es) > 0 /\ es[Len(es)] = MappingFeedId(feed_id, currency_id))

C19_Witness ==
    /\ events = <<MappingFeedId(7, "ACA"), UnmappingFeedId(7, "ACA"), MappingFeedId(9, "ACA")>>
    /\ FeedIdMapping["ACA"] = Some(9)
    /\ FeedIdMapping["DOT"] = None
    /\ last = Call("mapping_feed_id", "Ok")

(* C20: mapping_feed_id evaluates its preconditions in a fixed order: a    *)
(* call whose origin fails ensure_origin returns BadOrigin whatever the     *)
(* currency and the feed are; an authorized call for a currency that has   *)
(* an entry and a feed that does not exist returns                          *)
(* CurrencyIdAlreadyMapping, never InvalidFeedId; and every call that does  *)
(* not return Ok leaves the storage, the events and the feeds unchanged.    *)
C20_FixedPreconditionOrder ==
    [][last'.op = "mapping_feed_id" =>
       /\ last'.result # "Ok" => UNCHANGED <<Storage, Feeds, now>>
       /\ ~ \E origin \in Origins, feed_id \in FeedIds, currency_id \in CurrencyIds :
               /\ ~ensure_origin(origin)
               /\ last'.result # "BadOrigin"
               /\ mapping_feed_id(origin, feed_id, currency_id)
       /\ ~ \E origin \in Origins, feed_id \in FeedIds, currency_id \in CurrencyIds :
               /\ ensure_origin(origin)
               /\ IsSome(FeedIdMapping[currency_id])
               /\ ~IsSome(Feeds[feed_id])
               /\ last'.result # "CurrencyIdAlreadyMapping"
               /\ mapping_feed_id(origin, feed_id, currency_id)]_vars

C20_Witness ==
    /\ last = Call("mapping_feed_id", "CurrencyIdAlreadyMapping")
    /\ FeedIdMapping["ACA"] = Some(7)
    /\ FeedIdMapping["DOT"] = Some(7)
    /\ ~IsSome(Feeds[9])
    /\ events = <<MappingFeedId(7, "ACA"), MappingFeedId(7, "DOT")>>
====
